---- MODULE Spec2Model ----
(***************************************************************************)
(* Performance-oracle consensus engine of pulsartrack                      *)
(* (contracts/performance-oracle, documented in ORACLE_CONSENSUS_FIX.md).  *)
(*                                                                         *)
(* Persistent storage is a set of keyed maps:                              *)
(*   Attestation(campaign, attester)      -> PerformanceAttestation        *)
(*   CampaignAttesterIndex(campaign, i)   -> Address                       *)
(*   AttestationCount(campaign)           -> u32                           *)
(*   Consensus(campaign)                  -> OracleConsensus               *)
(* Instance storage holds MinAttesters.  Every contract call is one        *)
(* transaction: it runs to completion or panics and leaves no write.       *)
(*                                                                         *)
(* _try_build_consensus and the index write of submit_attestation are      *)
(* translated from the code shown in ORACLE_CONSENSUS_FIX.md: the index    *)
(* entry at the position of the count is set by every submit that gets     *)
(* that far.  The rest of submit_attestation (authorization, range         *)
(* validation, the attestation write, the increment of the count) is       *)
(* elided there and follows spec.md section 4.1.                           *)
(*                                                                         *)
(* Two further contracts of the repository are modelled next to the        *)
(* oracle, each with its own storage: audience-segments (create_segment,   *)
(* add_member, remove_member) and creative-marketplace (create_listing,    *)
(* purchase_license, remove_listing).  Each specification below runs one   *)
(* contract and leaves the storage of the others as deployed.              *)
(***************************************************************************)
EXTENDS Integers, Sequences, FiniteSets, TLC

VARIABLES
    authorized,     \* Attester Registry: the currently authorized attesters
    min_cfg,        \* instance storage MinAttesters: <<>> (unset) or <<n>>
    now,            \* env.ledger().timestamp()
    period,         \* the ledger's expiry period: entry lifetimes are counted in periods
    attestations,   \* map <<campaign, attester>> -> attestation record
    index,          \* map <<campaign, position>> -> attester
    count,          \* map campaign -> number of index entries
    consensus,      \* map campaign -> OracleConsensus record
    expiry,         \* map storage key -> last period in which the entry is live
    call,           \* arguments of the last call: <<c, a, m>> for a submit_attestation,
                    \* <<c>> for a get_consensus, <<entry point, a>> for a call of
                    \* the registry, <<>> before the first call
    result,         \* outcome of the last submit_attestation call
    returned,       \* map campaign -> what its last get_consensus returned, and
                    \* whether no submit_attestation has stored anything since
    overflow_checks,  \* the build's arithmetic overflow checks: on or off
    submitted,      \* map <<campaign, attester>> -> the measurement of the attester's
                    \* call, recorded in runs in which every attester submits once
    \* audience-segments contract
    segment_counter,  \* number of segments created
    segments,         \* map segment_id -> Segment record
    member_counts,    \* map segment_id -> u64, the MemberCount storage key
    memberships,      \* map <<segment_id, member>> -> score
    \* creative-marketplace contract
    listing_counter,  \* number of listings created
    listings,         \* map listing_id -> listing record
    content_owner,    \* map content_hash -> listing_id, the ContentOwner storage key
    listed            \* the last marketplace call: its entry point, arguments and outcome

segment_vars == <<segment_counter, segments, member_counts, memberships>>
market_vars == <<listing_counter, listings, content_owner, listed>>
oracle_vars == <<authorized, min_cfg, period, attestations, index, count, consensus,
                 expiry, call, result, returned, overflow_checks, submitted>>
vars == <<now, oracle_vars, segment_vars, market_vars>>
stores == <<attestations, index, count, consensus>>

-----------------------------------------------------------------------------
(* Bounds of the model *)

MaxTime == 1                 \* ledger timestamps range over 0..MaxTime
MaxConfiguredMin == 2        \* an explicitly configured MinAttesters is 0..MaxConfiguredMin
MaxPeriod == 3               \* expiry periods range over 0..MaxPeriod
MaxSegments == 2             \* segments created in a run
MaxMembers == 3              \* the member count of a segment stays within 0..MaxMembers
MaxListings == 3             \* listings created in a run

Campaigns == {1}
Attesters == {"A", "B", "C"}
\* In Spec the registry is fixed for a run: Init draws the authorized set, and
\* MinAttesters is whatever the deployment configured (or left unset).

-----------------------------------------------------------------------------
(* u64 arithmetic.  A u64 is a tuple of NumLimbs limbs of LimbBits bits,   *)
(* most significant first, so that values up to 2^64 - 1 and the overflow  *)
(* of their sums are represented exactly.                                  *)

U64Bits == 64
LimbBits == 16
LimbBase == 2 ^ LimbBits
NumLimbs == U64Bits \div LimbBits

\* the u64 with numeric value n, for n < 2^(2 * LimbBits)
ToU64(n) ==
    [i \in 1..NumLimbs |->
        IF i = NumLimbs THEN n % LimbBase
        ELSE IF i = NumLimbs - 1 THEN n \div LimbBase
        ELSE 0]

\* the limbs of w written out as a tuple
RECURSIVE LimbsUpTo(_, _)
LimbsUpTo(w, i) == IF i = 0 THEN <<>> ELSE Append(LimbsUpTo(w, i - 1), w[i])

Limbs(w) == LimbsUpTo(w, Len(w))

U64Zero == ToU64(0)
U64Max == [i \in 1..NumLimbs |-> LimbBase - 1]

\* carry out of the addition of limbs i..Len(a)
RECURSIVE CarryOut(_, _, _)
CarryOut(a, b, i) ==
    IF i > Len(a) THEN 0
    ELSE (a[i] + b[i] + CarryOut(a, b, i + 1)) \div LimbBase

\* a + b modulo 2^64
WrappingAdd(a, b) ==
    Limbs([i \in 1..Len(a) |-> (a[i] + b[i] + CarryOut(a, b, i + 1)) % LimbBase])

\* a + b does not fit the accumulator
AddOverflows(a, b) == CarryOut(a, b, 1) > 0

\* remainder of (limbs 1..i of a) divided by n
RECURSIVE RemAfter(_, _, _)
RemAfter(a, n, i) ==
    IF i = 0 THEN 0
    ELSE (RemAfter(a, n, i - 1) * LimbBase + a[i]) % n

\* a / n, integer division of a u64 by a positive count
DivU64(a, n) ==
    Limbs([i \in 1..Len(a) |-> (RemAfter(a, n, i - 1) * LimbBase + a[i]) \div n])

\* a narrowing to 8 bits
AsU8(a) == a[NumLimbs] % 256

\* `x as u32`: the low 32 bits of a u64
AsU32(a) == a[NumLimbs - 1] * LimbBase + a[NumLimbs]

-----------------------------------------------------------------------------
(* Keyed storage maps *)

Has(map, k) == k \in DOMAIN map

Put(map, k, v) == [x \in (DOMAIN map) \cup {k} |-> IF x = k THEN v ELSE map[x]]

-----------------------------------------------------------------------------
(* Expiry of persistent entries.  Lifetimes are counted in ledger periods,  *)
(* which are coarser than the timestamps of the clock; the two policy       *)
(* values are scaled to the periods a run covers.                           *)

PersistentBumpAmount == 2
PersistentLifetimeThreshold == PersistentBumpAmount - 1

\* the storage key of an entry of one of the four maps
TtlKey(kind, k) == <<kind, k>>

\* an extension that gives a lifetime to new entries only
ExtendTtlNewOnly(exp, key, t, threshold, extend_to) ==
    IF Has(exp, key) THEN exp ELSE Put(exp, key, t + extend_to)

\* extend_ttl(key, threshold, extend_to) in period t: an entry with less
\* than threshold periods left lives until t + extend_to
ExtendTtl(exp, key, t, threshold, extend_to) ==
    IF Has(exp, key) /\ exp[key] - t >= threshold THEN exp
    ELSE Put(exp, key, t + extend_to)

\* the entry is live in period t
Live(exp, key, t) == Has(exp, key) /\ exp[key] >= t

\* the entries of a map that are still live in period t
Lapse(map, exp, kind, t) ==
    [k \in {x \in DOMAIN map : Live(exp, TtlKey(kind, x), t)} |-> map[k]]

-----------------------------------------------------------------------------
(* Configuration *)

DefaultMinAttesters == 3

\* .get(&DataKey::MinAttesters).unwrap_or(3)
MinAttesters == IF min_cfg = <<>> THEN DefaultMinAttesters ELSE min_cfg[1]

\* .get(&DataKey::AttestationCount(campaign_id)).unwrap_or(0)
CountOf(cnt, c) == IF Has(cnt, c) THEN cnt[c] ELSE 0

-----------------------------------------------------------------------------
(* Measurements submitted by attesters *)

MaxFraudRate == 10000        \* fraud_rate is in basis points
MaxQualityScore == 100       \* quality_score is 0..100

Measurement(imp, clk, fraud, quality) ==
    [impressions_verified |-> imp, clicks_verified |-> clk,
     fraud_rate |-> fraud, quality_score |-> quality]

MA == Measurement(ToU64(1000), ToU64(100), 1000, 80)
MB == Measurement(ToU64(2000), ToU64(200), 2000, 90)
MC == Measurement(ToU64(9000), ToU64(900), 9000, 10)
\* counters above 2^32 whose sums still fit a u64
MBig == Measurement([i \in 1..NumLimbs |-> IF i = 1 THEN LimbBase \div 4 ELSE i],
                    [i \in 1..NumLimbs |-> IF i = 1 THEN 0 ELSE LimbBase - i], 7, 33)
\* the largest counters and scores: a sum with MHuge does not fit a u64
MHuge == Measurement(U64Max, [i \in 1..NumLimbs |-> IF i = 1 THEN LimbBase \div 2 ELSE 0],
                     MaxFraudRate, MaxQualityScore)
MBadFraud == Measurement(ToU64(1000), ToU64(100), MaxFraudRate + 1, 80)
MBadQuality == Measurement(ToU64(1000), ToU64(100), 1000, MaxQualityScore + 1)

\* the measurements each attester reports in the model; their sums fit a u64
Reports(a) ==
    IF a = "A" THEN {MA, MB, MBadFraud}
    ELSE IF a = "B" THEN {MB, MBig, MBadQuality}
    ELSE {MC, MBadFraud}

\* the measurements of the runs that reach the width of the accumulators
OverflowReports(a) ==
    IF a = "A" THEN {MA}
    ELSE IF a = "B" THEN {MB}
    ELSE {MC, MHuge}

\* numeric fields are in their declared bounded ranges
InRangeFraudOnly(m) == m.fraud_rate <= MaxFraudRate

InRange(m) == m.fraud_rate <= MaxFraudRate /\ m.quality_score <= MaxQualityScore

-----------------------------------------------------------------------------
(* Consensus Builder: _try_build_consensus *)

\* What an overflowing `+=` does is decided by the build, and the build
\* profile is not part of the sources: with overflow checks it panics, and a
\* panic rolls the whole invocation back; without them (the default of the
\* documented `cargo build --release`) it wraps modulo 2^64.  A deployment
\* is one or the other for its whole life.
OverflowChecks == overflow_checks

\* `sum += v` on a u64 accumulator
AccAdd(sum, v) ==
    [ok |-> ~(OverflowChecks /\ AddOverflows(sum, v)), val |-> WrappingAdd(sum, v)]

AccInit ==
    [err |-> "", sum_impressions |-> U64Zero, sum_clicks |-> U64Zero,
     sum_fraud_rate |-> U64Zero, sum_quality_score |-> U64Zero]

AccAbort(e) == [AccInit EXCEPT !.err = e]

\* one iteration of the loop body for the attestation a
AccStep(acc, a) ==
    LET imp == AccAdd(acc.sum_impressions, a.impressions_verified)
        clk == AccAdd(acc.sum_clicks, a.clicks_verified)
        fr  == AccAdd(acc.sum_fraud_rate, ToU64(a.fraud_rate))
        qs  == AccAdd(acc.sum_quality_score, ToU64(a.quality_score))
    IN  IF imp.ok /\ clk.ok /\ fr.ok /\ qs.ok
        THEN [err |-> "", sum_impressions |-> imp.val, sum_clicks |-> clk.val,
              sum_fraud_rate |-> fr.val, sum_quality_score |-> qs.val]
        ELSE AccAbort("Overflow")

\* a loop that reads position k - 1 in each of its k iterations
RECURSIVE AccRepeat(_, _)
AccRepeat(a, j) == IF j = 0 THEN AccInit ELSE AccStep(AccRepeat(a, j - 1), a)

AccumulateLast(att, idx, c, k) ==
    IF k = 0 THEN AccInit
    ELSE IF ~Has(idx, <<c, k - 1>>) THEN AccAbort("attester index not found")
    ELSE IF ~Has(att, <<c, idx[<<c, k - 1>>]>>) THEN AccAbort("attestation not found")
    ELSE AccRepeat(att[<<c, idx[<<c, k - 1>>]>>], k)

\* a loop over positions 1..k-1, which leaves out the first attester
RECURSIVE AccumulateSkipFirst(_, _, _, _)
AccumulateSkipFirst(att, idx, c, k) ==
    IF k <= 1 THEN AccInit
    ELSE LET prev == AccumulateSkipFirst(att, idx, c, k - 1)
             i == k - 1
         IN  IF prev.err # "" THEN prev
             ELSE IF ~Has(idx, <<c, i>>) THEN AccAbort("attester index not found")
             ELSE IF ~Has(att, <<c, idx[<<c, i>>]>>) THEN AccAbort("attestation not found")
             ELSE AccStep(prev, att[<<c, idx[<<c, i>>]>>])

\* a loop that asks the registry again and leaves out the attestations of
\* attesters who are no longer authorized
RECURSIVE AccumulateAuthorized(_, _, _, _)
AccumulateAuthorized(att, idx, c, k) ==
    IF k = 0 THEN AccInit
    ELSE LET prev == AccumulateAuthorized(att, idx, c, k - 1)
             i == k - 1
         IN  IF prev.err # "" THEN prev
             ELSE IF ~Has(idx, <<c, i>>) THEN AccAbort("attester index not found")
             ELSE IF ~Has(att, <<c, idx[<<c, i>>]>>) THEN AccAbort("attestation not found")
             ELSE IF idx[<<c, i>>] \notin authorized THEN prev
             ELSE AccStep(prev, att[<<c, idx[<<c, i>>]>>])

\* the accumulators after `for i in 0..k`
RECURSIVE Accumulate(_, _, _, _)
Accumulate(att, idx, c, k) ==
    IF k = 0 THEN AccInit
    ELSE LET prev == Accumulate(att, idx, c, k - 1)
             i == k - 1
         IN  IF prev.err # "" THEN prev
             ELSE IF ~Has(idx, <<c, i>>) THEN AccAbort("attester index not found")
             ELSE IF ~Has(att, <<c, idx[<<c, i>>]>>) THEN AccAbort("attestation not found")
             ELSE AccStep(prev, att[<<c, idx[<<c, i>>]>>])

\* averages rounded to the nearest integer instead of truncated
AveragesRounded(acc, total_attesters) ==
    LET half == ToU64(total_attesters \div 2)
    IN  [avg_impressions |->
             DivU64(WrappingAdd(acc.sum_impressions, half), total_attesters),
         avg_clicks |-> DivU64(WrappingAdd(acc.sum_clicks, half), total_attesters),
         avg_fraud_rate |->
             AsU32(DivU64(WrappingAdd(acc.sum_fraud_rate, half), total_attesters)),
         avg_quality_score |->
             AsU32(DivU64(WrappingAdd(acc.sum_quality_score, half), total_attesters))]

\* the four averages and the record written by the builder
Averages(acc, total_attesters) ==
    [avg_impressions |-> DivU64(acc.sum_impressions, total_attesters),
     avg_clicks |-> DivU64(acc.sum_clicks, total_attesters),
     avg_fraud_rate |-> AsU32(DivU64(acc.sum_fraud_rate, total_attesters)),
     avg_quality_score |-> AsU32(DivU64(acc.sum_quality_score, total_attesters))]

\* a record whose flag is graded by the averaged quality
OracleConsensusGraded(c, total_attesters, avg, t) ==
    [campaign_id |-> c,
     total_attesters |-> total_attesters,
     avg_impressions |-> avg.avg_impressions,
     avg_clicks |-> avg.avg_clicks,
     avg_fraud_rate |-> avg.avg_fraud_rate,
     avg_quality_score |-> avg.avg_quality_score,
     consensus_reached |-> avg.avg_quality_score * 4 >= MaxQualityScore * 3,
     last_updated |-> t]

OracleConsensus(c, total_attesters, avg, t) ==
    [campaign_id |-> c,
     total_attesters |-> total_attesters,
     avg_impressions |-> avg.avg_impressions,
     avg_clicks |-> avg.avg_clicks,
     avg_fraud_rate |-> avg.avg_fraud_rate,
     avg_quality_score |-> avg.avg_quality_score,
     consensus_reached |-> TRUE,
     last_updated |-> t]

\* the builder returned or panicked without storing a record
NotBuilt(e, cons) == [err |-> e, consensus |-> cons, wrote |-> FALSE]

\* _try_build_consensus(env, campaign_id, total_attesters) run on the stores
\* att, idx, cons at ledger time t with quorum min: the consensus map it
\* leaves and whether it stored the record, or the panic that aborts the call
BuildConsensus(att, idx, cons, c, total_attesters, t) ==
    LET acc == Accumulate(att, idx, c, total_attesters)
    IN  IF acc.err # "" THEN NotBuilt(acc.err, cons)
        ELSE IF total_attesters = 0
             THEN NotBuilt("attempt to divide by zero", cons)
        ELSE [err |-> "",
              consensus |-> Put(cons, c,
                  OracleConsensus(c, total_attesters,
                                  Averages(acc, total_attesters), t)),
              wrote |-> TRUE]

\* a quorum test that is off by one
TryBuildConsensusLate(att, idx, cons, min, c, total_attesters, t) ==
    IF total_attesters <= min THEN NotBuilt("", cons)
    ELSE BuildConsensus(att, idx, cons, c, total_attesters, t)

\* a builder that computes only when the threshold is first crossed
TryBuildConsensusOnce(att, idx, cons, min, c, total_attesters, t) ==
    IF total_attesters # min THEN NotBuilt("", cons)
    ELSE BuildConsensus(att, idx, cons, c, total_attesters, t)

\* a builder without the quorum test
TryBuildConsensusUngated(att, idx, cons, min, c, total_attesters, t) ==
    BuildConsensus(att, idx, cons, c, total_attesters, t)

TryBuildConsensus(att, idx, cons, min, c, total_attesters, t) ==
    IF total_attesters < min THEN NotBuilt("", cons)
    ELSE BuildConsensus(att, idx, cons, c, total_attesters, t)

-----------------------------------------------------------------------------
(* Attestation Store: submit_attestation *)

PerformanceAttestation(c, a, m, t) ==
    [campaign_id |-> c, attester |-> a,
     impressions_verified |-> m.impressions_verified,
     clicks_verified |-> m.clicks_verified,
     fraud_rate |-> m.fraud_rate,
     quality_score |-> m.quality_score,
     submitted_at |-> t]

\* an index keyed by the position alone
AppendIndexShared(idx, cnt, c, a) == Put(idx, <<1, CountOf(cnt, c)>>, a)

\* an index write one position too far
AppendIndexSkipping(idx, cnt, c, a) == Put(idx, <<c, CountOf(cnt, c) + 1>>, a)

\* .set(&DataKey::CampaignAttesterIndex(campaign_id, count), &attester): the
\* index after storing the attester at the position of the count just read
AppendIndex(idx, cnt, c, a) == Put(idx, <<c, CountOf(cnt, c)>>, a)

\* Attester Registry: is_authorized(attester)
IsAuthorizedAlways(auth, a) == TRUE

IsAuthorized(auth, a) == a \in auth

\* a test that takes every attester for a resubmitter
IsNewNever(att, c, a) == FALSE

\* no prior attestation exists for (campaign_id, attester): the submit
\* increments the count of the campaign (spec.md 4.1; the increment is elided
\* in ORACLE_CONSENSUS_FIX.md)
IsNew(att, c, a) == ~Has(att, <<c, a>>)

\* what the last call returned: its status, and for a stored attestation the
\* updated attester count and whether the attester was new to the campaign
Outcome(status, c, n, fresh) ==
    [status |-> status, campaign |-> c, count |-> n, is_new |-> fresh]

\* a failed call: the transaction is rolled back and nothing is written
Rejected(status, c) ==
    /\ result' = Outcome(status, c, 0, FALSE)
    /\ UNCHANGED <<authorized, min_cfg, now, period, attestations, index, count,
                   consensus, expiry, returned, overflow_checks>>
    /\ UNCHANGED <<segment_vars, market_vars>>

\* the expiry extensions of a submit that stored everything it wrote: each
\* `set` is followed by an `extend_ttl` of the same key
ExtendWritten(exp, c, a, position, is_new, built, t) ==
    LET ext(e, key) ==
            ExtendTtl(e, key, t, PersistentLifetimeThreshold, PersistentBumpAmount)
        e1 == ext(exp, TtlKey("CampaignAttesterIndex", <<c, position>>))
        e2 == ext(e1, TtlKey("Attestation", <<c, a>>))
        e3 == IF is_new THEN ext(e2, TtlKey("AttestationCount", c)) ELSE e2
    IN  IF built.wrote THEN ext(e3, TtlKey("Consensus", c)) ELSE e3

\* submit_attestation(campaign_id, attester, measurement).  The index entry at
\* the position of the count is set and extended by every call that passes
\* the two checks, as in the code; the count moves on for a new attester
\* only, so a resubmission leaves its entry at the position the next new
\* attester will take.
SubmitAttestation(c, a, m) ==
    /\ call' = <<c, a, m>>
    /\ IF ~IsAuthorized(authorized, a) THEN Rejected("Unauthorized", c)
       ELSE IF ~InRange(m) THEN Rejected("InvalidMeasurement", c)
       ELSE
         LET is_new == IsNew(attestations, c, a)
             idx2 == AppendIndex(index, count, c, a)
             n == IF is_new THEN CountOf(count, c) + 1 ELSE CountOf(count, c)
             att2 == Put(attestations, <<c, a>>, PerformanceAttestation(c, a, m, now))
         IN  \E built \in {TryBuildConsensus(att2, idx2, consensus, MinAttesters, c, n, now)} :
             IF built.err # "" THEN Rejected(built.err, c)
             ELSE /\ attestations' = att2
                  /\ index' = idx2
                  /\ count' = IF is_new THEN Put(count, c, n) ELSE count
                  /\ consensus' = built.consensus
                  /\ expiry' = ExtendWritten(expiry, c, a, CountOf(count, c),
                                             is_new, built, period)
                  /\ result' = Outcome("Ok", c, n, is_new)
                  /\ returned' = [x \in DOMAIN returned |->
                                      [returned[x] EXCEPT !.fresh = FALSE]]
                  /\ UNCHANGED <<authorized, min_cfg, now, period, overflow_checks>>
                  /\ UNCHANGED <<segment_vars, market_vars>>

\* a read that recomputes the record's timestamp instead of returning it
GetConsensusFresh(c) ==
    IF Has(consensus, c) THEN <<[consensus[c] EXCEPT !.last_updated = now]>> ELSE <<>>

\* get_consensus(campaign_id): the record, or nothing when not reached
GetConsensus(c) == IF Has(consensus, c) THEN <<consensus[c]>> ELSE <<>>
NotReached == <<>>

Returned(value, fresh) == [value |-> value, fresh |-> fresh]

\* a get_consensus call: a read that returns to the caller and writes nothing
ReadConsensus(c) ==
    /\ call' = <<c>>
    /\ returned' = [returned EXCEPT ![c] = Returned(GetConsensus(c), TRUE)]
    /\ UNCHANGED <<authorized, min_cfg, now, period, attestations, index, count,
                   consensus, expiry, result>>
    /\ UNCHANGED <<overflow_checks, submitted>>
    /\ UNCHANGED <<segment_vars, market_vars>>

-----------------------------------------------------------------------------
(* Audience segments: create_segment, add_member, remove_member.  The names *)
(* and criteria of a segment are opaque strings and are left out of the     *)
(* record; authorization of the admin is not part of the counters.          *)

Members == {"m1", "m2"}
Creators == {"creator"}
Scores == {50}

Segment(segment_id, creator, member_count, created_at, last_updated) ==
    [segment_id |-> segment_id, creator |-> creator, member_count |-> member_count,
     created_at |-> created_at, last_updated |-> last_updated]

\* create_segment: the next id, member_count 0, both timestamps now
CreateSegment(creator) ==
    /\ segment_counter < MaxSegments
    /\ LET segment_id == segment_counter + 1
       IN  /\ segment_counter' = segment_id
           /\ segments' = Put(segments, segment_id, Segment(segment_id, creator, 0, now, now))
    /\ UNCHANGED <<member_counts, memberships>>
    /\ UNCHANGED <<now, oracle_vars, market_vars>>

\* .get(&DataKey::MemberCount(segment_id)).unwrap_or(0)
MemberCountOf(counts, segment_id) ==
    IF Has(counts, segment_id) THEN counts[segment_id] ELSE 0

\* an update that leaves the segment's own field as it was
SyncedStale(segment, new_count, t) == [segment EXCEPT !.last_updated = t]

\* the segment with its member_count and last_updated fields set
Synced(segment, new_count, t) ==
    [segment EXCEPT !.member_count = new_count, !.last_updated = t]

\* a call that panics: nothing is written
SegmentCallFails == UNCHANGED <<now, oracle_vars, segment_vars, market_vars>>

AddMember(segment_id, member, score) ==
    IF ~Has(segments, segment_id) THEN SegmentCallFails
    ELSE LET count_ == MemberCountOf(member_counts, segment_id)
             new_count == count_ + 1
         IN  /\ count_ < MaxMembers
             /\ memberships' = Put(memberships, <<segment_id, member>>, score)
             /\ member_counts' = Put(member_counts, segment_id, new_count)
             /\ segments' = Put(segments, segment_id,
                                Synced(segments[segment_id], new_count, now))
             /\ UNCHANGED segment_counter
             /\ UNCHANGED <<now, oracle_vars, market_vars>>

RemoveMember(segment_id, member) ==
    IF ~Has(segments, segment_id) THEN SegmentCallFails
    ELSE LET count_ == MemberCountOf(member_counts, segment_id)
         IN  /\ memberships' = [k \in (DOMAIN memberships) \ {<<segment_id, member>>}
                                   |-> memberships[k]]
             /\ IF count_ > 0
                THEN LET new_count == count_ - 1
                     IN  /\ member_counts' = Put(member_counts, segment_id, new_count)
                         /\ segments' = Put(segments, segment_id,
                                Synced(segments[segment_id], new_count, now))
                ELSE UNCHANGED <<member_counts, segments>>
             /\ UNCHANGED segment_counter
             /\ UNCHANGED <<now, oracle_vars, market_vars>>

\* get_segment(segment_id): the record, or nothing
GetSegment(segment_id) ==
    IF Has(segments, segment_id) THEN <<segments[segment_id]>> ELSE <<>>

\* get_member_count(segment_id)
GetMemberCount(segment_id) == MemberCountOf(member_counts, segment_id)

-----------------------------------------------------------------------------
(* Creative marketplace: create_listing, purchase_license, remove_listing.  *)
(* Prices, creators and buyers play no part in the content lock and are     *)
(* left out of the listing record.                                          *)

LicenseTypes == {"Exclusive", "OneTime", "Recurring", "OpenSource"}
ContentHashes == {"Qm1", "Qm2"}

Listing(listing_id, content_hash, license_type, status) ==
    [listing_id |-> listing_id, content_hash |-> content_hash,
     license_type |-> license_type, status |-> status]

\* what the last marketplace call was and how it ended
MarketCall(op, listing_id, content_hash, license_type, status) ==
    [op |-> op, listing_id |-> listing_id, content_hash |-> content_hash,
     license_type |-> license_type, status |-> status]

\* a marketplace call that panics: nothing is written
MarketCallFails(op, listing_id, content_hash, license_type, status) ==
    /\ listed' = MarketCall(op, listing_id, content_hash, license_type, status)
    /\ UNCHANGED <<listing_counter, listings, content_owner>>
    /\ UNCHANGED <<now, oracle_vars, segment_vars>>

\* a check that lets every content hash pass
ContentListedNever(owner, content_hash) == FALSE

\* .has(&DataKey::ContentOwner(content_hash.clone()))
ContentListed(owner, content_hash) == Has(owner, content_hash)

\* a listing that marks its content as owned whatever its license
MarksOwnedAlways(license_type) == TRUE

\* matches!(license_type, LicenseType::Exclusive)
MarksOwned(license_type) == license_type = "Exclusive"

CreateListing(content_hash, license_type) ==
    IF ContentListed(content_owner, content_hash)
    THEN MarketCallFails("create_listing", 0, content_hash, license_type,
                         "content already listed - check for exclusive licenses")
    ELSE LET listing_id == listing_counter + 1
         IN  /\ listing_counter < MaxListings
             /\ listing_counter' = listing_id
             /\ listings' = Put(listings, listing_id,
                                Listing(listing_id, content_hash, license_type, "Active"))
             /\ content_owner' = IF MarksOwned(license_type)
                                 THEN Put(content_owner, content_hash, listing_id)
                                 ELSE content_owner
             /\ listed' = MarketCall("create_listing", listing_id, content_hash,
                                     license_type, "Ok")
             /\ UNCHANGED <<now, oracle_vars, segment_vars>>

\* purchase_license: the purchase of an exclusive license marks the listing Sold
PurchaseLicense(listing_id) ==
    IF ~Has(listings, listing_id) \/ listings[listing_id].status # "Active"
    THEN MarketCallFails("purchase_license", listing_id, "", "", "listing not active")
    ELSE LET listing == listings[listing_id]
         IN  /\ listings' = IF listing.license_type = "Exclusive"
                            THEN Put(listings, listing_id, [listing EXCEPT !.status = "Sold"])
                            ELSE listings
             /\ listed' = MarketCall("purchase_license", listing_id, listing.content_hash,
                                     listing.license_type, "Ok")
             /\ UNCHANGED <<listing_counter, content_owner>>
             /\ UNCHANGED <<now, oracle_vars, segment_vars>>

\* the map without the key k
Remove(map, k) == [x \in (DOMAIN map) \ {k} |-> map[x]]

\* remove_listing: the listing is gone, and with an exclusive one its content lock
RemoveListing(listing_id) ==
    IF ~Has(listings, listing_id)
    THEN MarketCallFails("remove_listing", listing_id, "", "", "listing not found")
    ELSE LET listing == listings[listing_id]
         IN  /\ listings' = Remove(listings, listing_id)
             /\ content_owner' =
                    IF MarksOwned(listing.license_type)
                       /\ Has(content_owner, listing.content_hash)
                    THEN Remove(content_owner, listing.content_hash)
                    ELSE content_owner
             /\ listed' = MarketCall("remove_listing", listing_id, listing.content_hash,
                                     listing.license_type, "Ok")
             /\ UNCHANGED listing_counter
             /\ UNCHANGED <<now, oracle_vars, segment_vars>>

-----------------------------------------------------------------------------
(* Collaborator: the ledger clock *)

Tick ==
    /\ now < MaxTime
    /\ now' = now + 1
    /\ UNCHANGED <<authorized, min_cfg, period, attestations, index, count, consensus,
                   expiry, call, result, returned>>
    /\ UNCHANGED <<overflow_checks, submitted>>
    /\ UNCHANGED <<segment_vars, market_vars>>

\* the ledger enters its next expiry period: the clock moves on and the
\* entries whose last live period has passed are gone
NextPeriod ==
    /\ period < MaxPeriod
    /\ period' = period + 1
    /\ now' = now + 1
    /\ attestations' = Lapse(attestations, expiry, "Attestation", period + 1)
    /\ index' = Lapse(index, expiry, "CampaignAttesterIndex", period + 1)
    /\ count' = Lapse(count, expiry, "AttestationCount", period + 1)
    /\ consensus' = Lapse(consensus, expiry, "Consensus", period + 1)
    /\ expiry' = [k \in {x \in DOMAIN expiry : expiry[x] >= period + 1} |-> expiry[k]]
    /\ UNCHANGED <<authorized, min_cfg, call, result, returned>>
    /\ UNCHANGED <<overflow_checks, submitted>>
    /\ UNCHANGED <<segment_vars, market_vars>>

-----------------------------------------------------------------------------
(* Wide numbers: one limb more than a u64, so that sums of a few u64       *)
(* values are exact.                                                       *)

Widen(a) == <<0>> \o a
WideZero == Widen(U64Zero)

\* a < b for limb tuples of equal length
RECURSIVE LessFrom(_, _, _)
LessFrom(a, b, i) ==
    IF i > Len(a) THEN FALSE
    ELSE IF a[i] # b[i] THEN a[i] < b[i]
    ELSE LessFrom(a, b, i + 1)

Less(a, b) == LessFrom(a, b, 1)
LessEq(a, b) == ~Less(b, a)

\* borrow out of the subtraction of limbs i..Len(a)
RECURSIVE BorrowOut(_, _, _)
BorrowOut(a, b, i) ==
    IF i > Len(a) THEN 0
    ELSE IF a[i] - b[i] - BorrowOut(a, b, i + 1) < 0 THEN 1 ELSE 0

\* a - b for a >= b
Minus(a, b) ==
    [i \in 1..Len(a) |-> (a[i] - b[i] - BorrowOut(a, b, i + 1) + LimbBase) % LimbBase]

AbsDiff(a, b) == IF Less(a, b) THEN Minus(b, a) ELSE Minus(a, b)

Fields == {"impressions_verified", "clicks_verified", "fraud_rate", "quality_score"}

\* a field of an attestation or measurement as an exact wide number
FieldOf(r, f) ==
    IF f \in {"fraud_rate", "quality_score"} THEN Widen(ToU64(r[f])) ELSE Widen(r[f])

-----------------------------------------------------------------------------
(* Specification *)

EmptyMap == [x \in {} |-> 0]

\* the state after construction of a deployment built with or without
\* overflow checks
Constructed(checks) ==
    /\ overflow_checks = checks
    /\ authorized \in SUBSET Attesters
    /\ min_cfg \in {<<>>} \cup {<<n>> : n \in 0..MaxConfiguredMin}
    /\ now = 0
    /\ period = 0
    /\ attestations = EmptyMap
    /\ index = EmptyMap
    /\ count = EmptyMap
    /\ consensus = EmptyMap
    /\ expiry = EmptyMap
    /\ call = <<>>
    /\ result = Outcome("Init", 0, 0, FALSE)
    /\ returned = [c \in Campaigns |-> Returned(NotReached, FALSE)]
    /\ submitted = EmptyMap
    /\ segment_counter = 0
    /\ segments = EmptyMap
    /\ member_counts = EmptyMap
    /\ memberships = EmptyMap
    /\ listing_counter = 0
    /\ listings = EmptyMap
    /\ content_owner = EmptyMap
    /\ listed = MarketCall("", 0, "", "", "")

\* The sums of the measurements of Reports stay below 2^63: no addition of a
\* run over them overflows and the two builds behave alike.  The
\* specifications over Reports run the build of the documented
\* `cargo build --release`; the specifications over OverflowReports run both.
Init == Constructed(FALSE)

Submit ==
    \E c \in Campaigns, a \in Attesters :
        \E m \in Reports(a) : SubmitAttestation(c, a, m) /\ UNCHANGED submitted
Next == Submit \/ Tick

Spec == Init /\ [][Next]_vars

\* the oracle with its read API in use, two attesters authorized
InitRead == Init /\ authorized = {"A", "B"}
Read == \E c \in Campaigns : ReadConsensus(c)
NextRead == Submit \/ Tick \/ Read

SpecRead == InitRead /\ [][NextRead]_vars

\* the oracle over several expiry periods, every attester authorized
InitExpiry == Init /\ authorized = Attesters /\ min_cfg = <<2>>
\* each attester reports one measurement, again and again
SubmitSame ==
    \E c \in Campaigns, a \in Attesters :
        \E m \in Reports(a) \cap {MA, MBig, MC} :
            SubmitAttestation(c, a, m) /\ UNCHANGED submitted
NextExpiry == SubmitSame \/ NextPeriod

SpecExpiry == InitExpiry /\ [][NextExpiry]_vars

\* a successful submit_attestation for every campaign was stored in this period
ActiveNow ==
    \A c \in Campaigns :
        \E a \in Attesters :
            Has(attestations, <<c, a>>) /\ attestations[<<c, a>>].submitted_at = now

\* the oracle in continuous use: no period ends without a stored submit
NextActive == SubmitSame \/ (ActiveNow /\ NextPeriod)

SpecActive == InitExpiry /\ [][NextActive]_vars

\* two campaigns attested side by side, every attester authorized but one
TwoCampaigns == {1, 2}
InitTwo == Init /\ authorized = {"A", "B"} /\ min_cfg = <<2>>
SubmitTwo ==
    \E c \in TwoCampaigns, a \in Attesters :
        \E m \in Reports(a) : SubmitAttestation(c, a, m) /\ UNCHANGED submitted
NextTwo == SubmitTwo

SpecTwo == InitTwo /\ [][NextTwo]_vars

\* a deployment of either build whose attesters report counters up to the
\* width of the accumulators
InitOverflow ==
    /\ \E checks \in BOOLEAN : Constructed(checks)
    /\ authorized = Attesters
    /\ min_cfg = <<2>>
SubmitOverflow ==
    \E c \in Campaigns, a \in Attesters :
        \E m \in OverflowReports(a) : SubmitAttestation(c, a, m) /\ UNCHANGED submitted
NextOverflow == SubmitOverflow \/ Tick

SpecOverflow == InitOverflow /\ [][NextOverflow]_vars

\* two campaigns of one deployment, each receiving one submit per attester in
\* an order of its own; the measurement of every call is recorded
SubmitOnce(c, a, m) ==
    /\ ~Has(submitted, <<c, a>>)
    /\ SubmitAttestation(c, a, m)
    /\ submitted' = Put(submitted, <<c, a>>, m)

SubmitInOrder ==
    \E c \in TwoCampaigns, a \in Attesters :
        \E m \in OverflowReports(a) : SubmitOnce(c, a, m)
NextOrder == SubmitInOrder

SpecOrder == InitOverflow /\ [][NextOrder]_vars

\* the audience-segments contract, freshly deployed
InitSegments == Init /\ authorized = {} /\ min_cfg = <<>>
SegmentIds == 1..(MaxSegments + 1)
NextSegments ==
    \/ \E creator \in Creators : CreateSegment(creator)
    \/ \E segment_id \in SegmentIds, member \in Members, score \in Scores :
            AddMember(segment_id, member, score)
    \/ \E segment_id \in SegmentIds, member \in Members :
            RemoveMember(segment_id, member)
    \/ Tick

SpecSegments == InitSegments /\ [][NextSegments]_vars

\* the creative-marketplace contract, freshly deployed
InitMarket == Init /\ authorized = {} /\ min_cfg = <<>>
ListingIds == 1..MaxListings
NextMarket ==
    \/ \E content_hash \in ContentHashes, license_type \in LicenseTypes :
            CreateListing(content_hash, license_type)
    \/ \E listing_id \in ListingIds : PurchaseLicense(listing_id)
    \/ \E listing_id \in ListingIds : RemoveListing(listing_id)

SpecMarket == InitMarket /\ [][NextMarket]_vars

-----------------------------------------------------------------------------
(* Exact sums for stating the properties: taken over the SET of stored    *)
(* attestations in wide numbers, so that they cannot wrap.                 *)

\* the attesters holding an attestation for campaign c in the store att
StoredIn(att, c) == {a \in Attesters : Has(att, <<c, a>>)}
Stored(c) == StoredIn(attestations, c)

\* the matching average of a consensus record as a wide number
AvgOf(r, f) ==
    IF f = "impressions_verified" THEN Widen(r.avg_impressions)
    ELSE IF f = "clicks_verified" THEN Widen(r.avg_clicks)
    ELSE IF f = "fraud_rate" THEN Widen(ToU64(r.avg_fraud_rate))
    ELSE Widen(ToU64(r.avg_quality_score))

\* the exact sum of the wide numbers v[x], x in DOMAIN v
RECURSIVE WideSum(_)
WideSum(v) ==
    IF DOMAIN v = {} THEN WideZero
    ELSE LET x == CHOOSE x \in DOMAIN v : TRUE
         IN  WrappingAdd(v[x], WideSum([y \in (DOMAIN v) \ {x} |-> v[y]]))

\* the exact sum of field f over the attestations of campaign c in att
ExactSum(att, c, f) == WideSum([a \in StoredIn(att, c) |-> FieldOf(att[<<c, a>>], f)])

\* the record rec holds, for n attesters, the truncated means of everything
\* stored for campaign c in att
IsMeanOfStore(rec, att, c, n) ==
    /\ n = Cardinality(StoredIn(att, c))
    /\ n > 0
    /\ rec.total_attesters = n
    /\ rec.consensus_reached = TRUE
    /\ \A f \in Fields : AvgOf(rec, f) = DivU64(ExactSum(att, c, f), n)

\* the four averages of a record as plain numbers <<imp, clk, fraud, quality>>
AvgTuple(rec) ==
    <<rec.avg_impressions, rec.avg_clicks, rec.avg_fraud_rate, rec.avg_quality_score>>

\* the measurements stored for campaign c are exactly those of the function w
StoreIs(att, c, w) ==
    /\ StoredIn(att, c) = DOMAIN w
    /\ \A a \in DOMAIN w : \A f \in Fields : att[<<c, a>>][f] = w[a][f]

\* this step is the call submit_attestation(c, a, m): contract calls leave
\* the ledger time and the configuration alone, the clock leaves `call` alone
SubmitStep(c, a, m) ==
    /\ call' = <<c, a, m>>
    /\ now' = now

\* this step is a call of submit_attestation for campaign c that stored an
\* attestation
SubmitOkStep(c) ==
    /\ result'.status = "Ok"
    /\ result'.campaign = c
    /\ now' = now

-----------------------------------------------------------------------------
(* C1  Quorum gating: get_consensus returns NotReached in every state in   *)
(* which count(campaign) < min_attesters, and the submit that brings the   *)
(* count to exactly min_attesters leaves a consensus record.               *)

C1_QuorumGating ==
    /\ [](\A c \in Campaigns :
            CountOf(count, c) < MinAttesters => GetConsensus(c) = NotReached)
    /\ [][\A c \in Campaigns :
            (CountOf(count, c) < MinAttesters /\ CountOf(count', c) = MinAttesters)
                => GetConsensus(c)' # NotReached]_vars

\* the submit of a new attester has just brought the count to the quorum
C1_Witness ==
    \E c \in Campaigns :
        /\ MinAttesters >= 2
        /\ result = Outcome("Ok", c, MinAttesters, TRUE)
        /\ CountOf(count, c) = MinAttesters
        /\ GetConsensus(c) # NotReached

(* C2  Whenever a consensus record is written for a campaign with n        *)
(* attesters, its four averages are the truncated quotients of the sums    *)
(* over all n stored attestations, total_attesters = n and                 *)
(* consensus_reached = TRUE; A = (1000,100,1000,80), B = (2000,200,2000,90)*)
(* give (1500,150,1500,85) with total_attesters = 2.                       *)

C2_AveragesOfAll ==
    [][\A c \in Campaigns :
        (SubmitOkStep(c) /\ Has(consensus', c) /\ CountOf(count', c) >= MinAttesters) =>
            /\ IsMeanOfStore(consensus'[c], attestations', c, CountOf(count', c))
            /\ StoreIs(attestations', c, [a \in {"A", "B"} |-> IF a = "A" THEN MA ELSE MB])
                 => /\ AvgTuple(consensus'[c]) = <<ToU64(1500), ToU64(150), 1500, 85>>
                    /\ consensus'[c].total_attesters = 2]_vars

\* the two-attester scenario has been computed
C2_Witness ==
    \E c \in Campaigns :
        /\ StoreIs(attestations, c, [a \in {"A", "B"} |-> IF a = "A" THEN MA ELSE MB])
        /\ result.status = "Ok"
        /\ Has(consensus, c)
        /\ consensus[c].total_attesters = 2
        /\ AvgTuple(consensus[c]) = <<ToU64(1500), ToU64(150), 1500, 85>>

(* C3  No single-attester override: when at least two attesters have       *)
(* reported and a new attester submits an extreme outlier Y (farther from  *)
(* every reported value than those values are from each other, by more     *)
(* than 2), the new average satisfies |avg - X| < |Y - X| for every        *)
(* reported value X and is not Y; after A and B of the two-attester        *)
(* scenario, C = (9000,900,9000,10) yields (4000,400,4000,60).             *)

\* the smallest and the largest of a non-empty set of wide numbers
MinOf(S) == CHOOSE x \in S : \A y \in S : LessEq(x, y)
MaxOf(S) == CHOOSE x \in S : \A y \in S : LessEq(y, x)

WideTwo == Widen(ToU64(2))

\* y lies outside the cluster S by more than the cluster's width plus 2
ExtremeOutlier(y, S) ==
    LET lo == MinOf(S)
        hi == MaxOf(S)
        margin == WrappingAdd(Minus(hi, lo), WideTwo)
    IN  \/ Less(WrappingAdd(hi, margin), y)
        \/ Less(WrappingAdd(y, margin), lo)

ScenarioABC == [a \in {"A", "B", "C"} |-> IF a = "A" THEN MA ELSE IF a = "B" THEN MB ELSE MC]

C3_NoOverride ==
    [][\A c \in Campaigns : \A x \in Attesters :
        (/\ SubmitOkStep(c)
         /\ result'.is_new
         /\ StoredIn(attestations', c) = Stored(c) \cup {x}
         /\ x \notin Stored(c)
         /\ Cardinality(Stored(c)) >= 2
         /\ CountOf(count', c) >= MinAttesters) =>
            /\ Has(consensus', c)
            /\ \A f \in Fields :
                 LET cluster == {FieldOf(attestations[<<c, a>>], f) : a \in Stored(c)}
                     y == FieldOf(attestations'[<<c, x>>], f)
                     avg == AvgOf(consensus'[c], f)
                 IN  ExtremeOutlier(y, cluster) =>
                        /\ avg # y
                        /\ \A xv \in cluster : Less(AbsDiff(avg, xv), AbsDiff(y, xv))
            /\ StoreIs(attestations', c, ScenarioABC)
                 => AvgTuple(consensus'[c]) = <<ToU64(4000), ToU64(400), 4000, 60>>]_vars

\* C has just submitted the outlier after A and B of the scenario
C3_Witness ==
    \E c \in Campaigns :
        /\ StoreIs(attestations, c, ScenarioABC)
        /\ Has(index, <<c, 2>>) /\ index[<<c, 2>>] = "C"
        /\ result = Outcome("Ok", c, 3, TRUE)
        /\ attestations[<<c, "C">>].submitted_at = now
        /\ Has(consensus, c)
        /\ AvgTuple(consensus[c]) = <<ToU64(4000), ToU64(400), 4000, 60>>

(* C4  (as stated) Order independence: when the same attesters have each   *)
(* submitted once, with the same measurement per attester, the consensus   *)
(* averages and total_attesters are the same whatever the order of the     *)
(* submits.  The two campaigns of SpecOrder are two such runs.             *)

\* the attesters that have called submit_attestation for campaign c
Called(c) == {a \in Attesters : Has(submitted, <<c, a>>)}

\* campaigns c and d have received the same measurement from the same attesters
SameAssignment(c, d) ==
    /\ Called(c) = Called(d)
    /\ \A a \in Called(c) : submitted[<<c, a>>] = submitted[<<d, a>>]

\* campaigns c and d have the same consensus: none, or the same four averages
\* over the same number of attesters
SameConsensus(c, d) ==
    /\ Has(consensus, c) <=> Has(consensus, d)
    /\ Has(consensus, c) =>
          /\ AvgTuple(consensus[c]) = AvgTuple(consensus[d])
          /\ consensus[c].total_attesters = consensus[d].total_attesters

AllStored(c) == \A a \in Called(c) : Has(attestations, <<c, a>>)

(* C4  (amended) Order independence of the submits that succeed: when the  *)
(* same attesters have each submitted once, with the same measurement per  *)
(* attester, and every one of these submits was stored, the consensus      *)
(* averages and total_attesters are the same whatever the order.           *)

C5_ResubmitInPlace ==
    [][\A c \in Campaigns, a \in Attesters : \A m \in Reports(a) :
        (/\ Has(attestations, <<c, a>>)
         /\ SubmitStep(c, a, m)
         /\ result'.status = "Ok") =>
            /\ index' = index
            /\ count' = count
            /\ result'.count = CountOf(count, c)
            /\ DOMAIN attestations' = DOMAIN attestations
            /\ \A k \in DOMAIN attestations :
                 k # <<c, a>> => attestations'[k] = attestations[k]
            /\ \A f \in Fields : attestations'[<<c, a>>][f] = m[f]
            /\ attestations'[<<c, a>>].submitted_at = now
            /\ Has(consensus', c) =>
                 consensus'[c].total_attesters = CountOf(count, c)]_vars

(* C6  After any sequence of submissions and resubmissions every attester  *)
(* who has submitted holds exactly one of the positions 0..count-1 that    *)
(* the builder reads, and each consensus is computed from exactly one      *)
(* value per attester: the value just submitted for the submitter and the  *)
(* stored (most recent) value of every other.                              *)

\* the positions read by the builder that hold the attester a
IndexSlots(c, a) ==
    {i \in 0..(CountOf(count, c) - 1) : Has(index, <<c, i>>) /\ index[<<c, i>>] = a}

C7_RecomputedOnEverySubmit ==
    [][\A c \in Campaigns :
        (Has(consensus, c) /\ SubmitOkStep(c) /\ min_cfg' = min_cfg) =>
            /\ Has(consensus', c)
            /\ consensus'[c].last_updated = now'
            /\ consensus'[c].campaign_id = c
            /\ IsMeanOfStore(consensus'[c], attestations', c, CountOf(count', c))]_vars

(* C7  (amended) Once a campaign's consensus has been reached, every later *)
(* successful submit that finds count(campaign) >= the min_attesters in    *)
(* force rewrites the record from the complete current attestation set,    *)
(* stamped with the time of that submit; a successful submit that finds    *)
(* the count below a raised min_attesters leaves the record as it was.     *)

C7_RecomputedAtQuorum ==
    [][\A c \in Campaigns :
        (Has(consensus, c) /\ SubmitOkStep(c) /\ min_cfg' = min_cfg) =>
            IF CountOf(count', c) >= MinAttesters
            THEN /\ Has(consensus', c)
                 /\ consensus'[c].last_updated = now'
                 /\ consensus'[c].campaign_id = c
                 /\ IsMeanOfStore(consensus'[c], attestations', c, CountOf(count', c))
            ELSE consensus' = consensus]_vars

\* a new attester has submitted after the quorum had already been reached
C7_Witness ==
    \E c \in Campaigns :
        /\ MinAttesters >= 1
        /\ CountOf(count, c) > MinAttesters
        /\ result = Outcome("Ok", c, CountOf(count, c), TRUE)
        /\ Has(consensus, c)
        /\ consensus[c].total_attesters = CountOf(count, c)
        /\ consensus[c].last_updated = now
        /\ \E a \in Stored(c) : attestations[<<c, a>>].submitted_at < now

(* C8  A submit by an attester that is not currently authorized fails with *)
(* Unauthorized and changes nothing: attestations, index entries, count    *)
(* and any previously written consensus record are as before the call.     *)

C8_UnauthorizedRejected ==
    [][\A c \in Campaigns, a \in Attesters : \A m \in Reports(a) :
        (SubmitStep(c, a, m) /\ a \notin authorized) =>
            /\ result' = Outcome("Unauthorized", c, 0, FALSE)
            /\ UNCHANGED <<attestations, index, count, consensus>>]_vars

\* an unauthorized attester has been turned away from a campaign that has a
\* consensus record
C8_Witness ==
    /\ call # <<>>
    /\ call[2] \notin authorized
    /\ result.status = "Unauthorized"
    /\ Has(consensus, call[1])
    /\ CountOf(count, call[1]) >= 2

(* C9  A submit (by an authorized attester) whose fraud_rate or            *)
(* quality_score lies outside its declared range fails with                *)
(* InvalidMeasurement and leaves attestations, index, count and consensus  *)
(* unchanged; no stored attestation ever holds an out-of-range value.      *)

OutOfRange(m) == m.fraud_rate > MaxFraudRate \/ m.quality_score > MaxQualityScore

C9_InvalidRejected ==
    /\ [](\A k \in DOMAIN attestations : ~OutOfRange(attestations[k]))
    /\ [][\A c \in Campaigns, a \in Attesters : \A m \in Reports(a) :
            (SubmitStep(c, a, m) /\ OutOfRange(m)) =>
                /\ a \in authorized => result' = Outcome("InvalidMeasurement", c, 0, FALSE)
                /\ result'.status # "Ok"
                /\ UNCHANGED <<attestations, index, count, consensus>>]_vars

\* an authorized attester's out-of-range quality score has been rejected
C9_Witness ==
    /\ call # <<>>
    /\ call[2] \in authorized
    /\ call[3].quality_score > MaxQualityScore
    /\ call[3].fraud_rate <= MaxFraudRate
    /\ result.status = "InvalidMeasurement"
    /\ Has(consensus, call[1])

(* C10  If a sum of the consensus computation would exceed the 64-bit      *)
(* accumulator, the computation aborts with Overflow and the call writes   *)
(* nothing: the stored record is the complete previous one or absent, and  *)
(* every record stored holds the exact (unwrapped) averages.               *)

\* submitting m for attester a makes the exact sum of some field of
\* campaign c exceed 2^64 - 1
WouldOverflow(c, a, m) ==
    LET S == Stored(c) \cup {a}
        latest == [x \in S |-> IF x = a THEN m ELSE attestations[<<c, x>>]]
    IN  \E f \in Fields : WideSum([x \in S |-> FieldOf(latest[x], f)])[1] > 0

C10_OverflowAborts ==
    /\ [](\A c \in Campaigns :
            Has(consensus, c) =>
                \A f \in Fields :
                    /\ ExactSum(attestations, c, f)[1] = 0
                    /\ AvgOf(consensus[c], f) =
                         DivU64(ExactSum(attestations, c, f), consensus[c].total_attesters))
    /\ [][\A c \in Campaigns, a \in Attesters : \A m \in OverflowReports(a) :
            (/\ SubmitStep(c, a, m)
             /\ a \in authorized
             /\ ~OutOfRange(m)
             /\ Cardinality(Stored(c) \cup {a}) >= MinAttesters
             /\ WouldOverflow(c, a, m)) =>
                /\ result' = Outcome("Overflow", c, 0, FALSE)
                /\ UNCHANGED <<attestations, index, count, consensus>>]_vars

-----------------------------------------------------------------------------
(* Claims C11..C20 *)

\* the step is a get_consensus(c) call
ReadStep(c) == call' = <<c>> /\ now' = now /\ period' = period

\* C11: get_consensus(campaign_id) changes no state, and two calls with no
\* submit stored in between return identical results: the same record, or
\* NotReached both times, however far the clock has moved meanwhile.
C11_IdempotentRead ==
    [][\A c \in Campaigns :
        ReadStep(c) =>
            /\ UNCHANGED <<authorized, min_cfg, stores, expiry, result>>
            /\ returned[c].fresh => returned'[c].value = returned[c].value]_vars

\* a second read of a reached consensus at a later time than the first
C11_Witness ==
    \E c \in Campaigns :
        /\ call = <<c>>
        /\ returned[c].fresh
        /\ returned[c].value # NotReached
        /\ returned[c].value[1].last_updated < now

\* the step stored a new or a different value under key k
Written(before, after, k) == Has(after, k) /\ (~Has(before, k) \/ after[k] # before[k])

\* after the step the entry has at least the threshold of periods left
Refreshed(kind, k) ==
    Live(expiry', TtlKey(kind, k), period' + PersistentLifetimeThreshold)

\* C12: every write of submit or of the consensus builder to an Attestation,
\* an Attester Index Entry, the attester count or the OracleConsensus record
\* comes with an expiry extension of that record in the same call: no record
\* is written and left with less than the policy's threshold of lifetime.
C12_WritesRefreshExpiry ==
    [][/\ \A k \in DOMAIN attestations' :
            Written(attestations, attestations', k) => Refreshed("Attestation", k)
       /\ \A k \in DOMAIN index' :
            Written(index, index', k) => Refreshed("CampaignAttesterIndex", k)
       /\ \A k \in DOMAIN count' :
            Written(count, count', k) => Refreshed("AttestationCount", k)
       /\ \A k \in DOMAIN consensus' :
            Written(consensus, consensus', k) => Refreshed("Consensus", k)]_vars

\* a resubmission in a later period has overwritten an attestation and the
\* consensus record, and both were extended from the period of the overwrite
C12_Witness ==
    \E c \in Campaigns, a \in Attesters :
        /\ period >= PersistentBumpAmount
        /\ result.status = "Ok" /\ ~result.is_new
        /\ Len(call) = 3 /\ call[1] = c /\ call[2] = a
        /\ Has(attestations, <<c, a>>) /\ attestations[<<c, a>>].submitted_at = now
        /\ expiry[TtlKey("Attestation", <<c, a>>)] = period + PersistentBumpAmount
        /\ Has(consensus, c) /\ consensus[c].last_updated = now
        /\ expiry[TtlKey("Consensus", c)] = period + PersistentBumpAmount

\* every index position below the count holds an attester whose attestation
\* is stored
IndexedDataPresent(c) ==
    \A i \in 0..(CountOf(count, c) - 1) :
        Has(index, <<c, i>>) /\ Has(attestations, <<c, index[<<c, i>>]>>)

\* C13: in a campaign that receives a successful submit in every expiry
\* period, no Attester Index Entry below the count and no attestation of an
\* indexed attester expires, and no submit aborts with 'attester index not
\* found' or 'attestation not found'.
C13_ActiveDataDoesNotLapse ==
    /\ \A c \in Campaigns : IndexedDataPresent(c)
    /\ result.status \notin {"attester index not found", "attestation not found"}

\* the attesters that have an attestation stored for campaign c; an
\* attestation is never deleted, so these are the attesters that have ever
\* submitted successfully
Submitters(c) == {a \in Attesters : Has(attestations, <<c, a>>)}

\* C14: for every campaign the Attester Index Entries occupy exactly the
\* positions 0..count-1, hold pairwise distinct attesters, and the count is
\* the number of distinct attesters that have ever submitted successfully.
C14_IndexContiguous ==
    \A c \in Campaigns :
        LET n == CountOf(count, c)
        IN  /\ {k \in DOMAIN index : k[1] = c} = {<<c, i>> : i \in 0..(n - 1)}
            /\ \A i, j \in 0..(n - 1) :
                   index[<<c, i>>] = index[<<c, j>>] => i = j
            /\ {index[<<c, i>>] : i \in 0..(n - 1)} = Submitters(c)
            /\ n = Cardinality(Submitters(c))

\* get_consensus returned a record that says consensus is reached
ReturnedReached(r) == r.value # NotReached /\ r.value[1].consensus_reached

\* C15: consensus_reached is monotonic: once get_consensus has returned a
\* record with consensus_reached = true for a campaign, the next get_consensus
\* for it, whatever was submitted in between, returns such a record again and
\* never NotReached or false; and the stored record never loses the flag.
C15_ReachedMonotonic ==
    [][\A c \in Campaigns :
        /\ (ReturnedReached(returned[c]) /\ ReadStep(c)) => ReturnedReached(returned'[c])
        /\ (Has(consensus, c) /\ consensus[c].consensus_reached)
               => (Has(consensus', c) /\ consensus'[c].consensus_reached)]_vars

\* a read that follows a resubmission which recomputed a reached consensus
C15_Witness ==
    \E c \in Campaigns :
        /\ call = <<c>>
        /\ returned[c].fresh /\ ReturnedReached(returned[c])
        /\ result.status = "Ok" /\ ~result.is_new
        /\ returned[c].value[1].last_updated > 0

\* the four values of a measurement as <<imp, clk, fraud, quality>>
MeasurementTuple(m) ==
    <<m.impressions_verified, m.clicks_verified, m.fraud_rate, m.quality_score>>

\* with min_attesters 0 or 1, a submit of an authorized attester with values
\* in range that no accumulator overflows on is stored
NotRefused ==
    \A c \in Campaigns, a \in Attesters : \A m \in Reports(a) :
        (/\ MinAttesters <= 1
         /\ SubmitStep(c, a, m)
         /\ a \in authorized
         /\ ~OutOfRange(m)
         /\ ~WouldOverflow(c, a, m)) => result'.status = "Ok"

\* C16 as stated: with min_attesters configured as 0 or 1 the engine does not
\* refuse submissions and the consensus is 'last submission wins': after each
\* successful submit the record's four values are those of that submission.
C16_LastSubmissionWins ==
    [][/\ NotRefused
       /\ \A c \in Campaigns :
            (MinAttesters <= 1 /\ SubmitOkStep(c)) =>
                /\ Has(consensus', c)
                /\ AvgTuple(consensus'[c]) = MeasurementTuple(call'[3])]_vars

\* C16 as amended: with min_attesters configured as 0 or 1 the engine does
\* not refuse submissions and every successful submit, the first included,
\* leaves a consensus record; its four values are the truncated means over
\* all stored attestations, which are the values of the last submission only
\* while a single attester has submitted.
C16_MinZeroOrOne ==
    [][/\ NotRefused
       /\ \A c \in Campaigns :
            (MinAttesters <= 1 /\ SubmitOkStep(c)) =>
                /\ Has(consensus', c)
                /\ consensus'[c].last_updated = now
                /\ IsMeanOfStore(consensus'[c], attestations', c, CountOf(count', c))
                /\ CountOf(count', c) = 1
                     => AvgTuple(consensus'[c]) = MeasurementTuple(call'[3])]_vars

\* with min_attesters = 0 a second attester has submitted and the record
\* holds the means of both, not the values just submitted
C16_Witness ==
    \E c \in Campaigns :
        /\ min_cfg = <<0>>
        /\ result = Outcome("Ok", c, 2, TRUE)
        /\ Has(consensus, c)
        /\ consensus[c].total_attesters = 2
        /\ AvgTuple(consensus[c]) # MeasurementTuple(call[3])

\* the entries of a store that belong to campaign c; attestation and index
\* keys are pairs headed by the campaign, count and consensus keys are the
\* campaign itself
OfCampaign(map, c, paired) ==
    [k \in {x \in DOMAIN map : IF paired THEN x[1] = c ELSE x = c} |-> map[k]]

\* everything stored for campaign c, with the lifetimes of its entries
CampaignData(att, idx, cnt, cons, exp, c) ==
    <<OfCampaign(att, c, TRUE), OfCampaign(idx, c, TRUE),
      OfCampaign(cnt, c, FALSE), OfCampaign(cons, c, FALSE),
      [k \in {x \in DOMAIN exp :
                 IF x[1] \in {"Attestation", "CampaignAttesterIndex"}
                 THEN x[2][1] = c ELSE x[2] = c} |-> exp[k]]>>

\* C17: campaign independence: a submit for campaign c, successful or failed,
\* leaves every Attestation, Attester Index Entry, count and OracleConsensus
\* record of every other campaign unchanged.
C17_CampaignIndependence ==
    [][\A c \in TwoCampaigns :
        (Len(call') = 3 /\ call'[1] = c /\ now' = now) =>
            \A other \in TwoCampaigns \ {c} :
                CampaignData(attestations', index', count', consensus', expiry', other)
                  = CampaignData(attestations, index, count, consensus, expiry, other)]_vars

\* both campaigns have a consensus of their own and the last submit, for one
\* of them, stored an attestation
C17_Witness ==
    /\ Has(consensus, 1) /\ Has(consensus, 2)
    /\ AvgTuple(consensus[1]) # AvgTuple(consensus[2])
    /\ result.status = "Ok"
    /\ consensus[result.campaign].last_updated = now

\* C18: audience segments: after any sequence of create_segment, add_member
\* and remove_member calls on a freshly deployed contract, the member_count
\* field of the record returned by get_segment(segment_id) equals
\* get_member_count(segment_id), also when remove_member is called with the
\* count already at 0.
C18_MemberCountSynced ==
    \A segment_id \in SegmentIds :
        GetSegment(segment_id) # <<>> =>
            GetSegment(segment_id)[1].member_count = GetMemberCount(segment_id)

\* a segment has been filled and emptied again, another one still has members
C18_Witness ==
    \E s1, s2 \in SegmentIds :
        /\ GetSegment(s1) # <<>> /\ GetSegment(s2) # <<>>
        /\ Has(member_counts, s1) /\ GetMemberCount(s1) = 0
        /\ GetSegment(s1)[1].last_updated > GetSegment(s1)[1].created_at
        /\ GetMemberCount(s2) = 2
        /\ GetSegment(s2)[1].member_count = 2

\* an exclusive listing for the content hash h is in place, Active or Sold
ExclusiveListed(h) ==
    \E id \in DOMAIN listings :
        listings[id].content_hash = h /\ listings[id].license_type = "Exclusive"

\* the step is a create_listing call for content hash h
CreateStep(h) == listed'.op = "create_listing" /\ listed'.content_hash = h

\* C19: creative marketplace: once create_listing has succeeded with license
\* type Exclusive for a content hash h, every later create_listing with the
\* same h panics, whether that listing is Active or Sold, until the exclusive
\* listing is removed; after remove_listing of it a new listing with h
\* succeeds.
C19_ExclusiveBlocksDuplicates ==
    [][\A h \in ContentHashes :
        /\ (ExclusiveListed(h) /\ CreateStep(h)) =>
               /\ listed'.status # "Ok"
               /\ UNCHANGED <<listing_counter, listings, content_owner>>
        /\ (~ExclusiveListed(h) /\ CreateStep(h)) =>
               /\ listed'.status = "Ok"
               /\ Has(listings', listed'.listing_id)
               /\ listings'[listed'.listing_id].content_hash = h
        /\ (/\ ExclusiveListed(h)
            /\ listed'.op = "remove_listing" /\ listed'.status = "Ok"
            /\ listed'.content_hash = h /\ listed'.license_type = "Exclusive")
               => ~ExclusiveListed(h)']_vars

\* a create_listing has just been refused for the content of a Sold exclusive
\* listing
C19_Witness ==
    /\ listed.op = "create_listing" /\ listed.status # "Ok"
    /\ \E id \in DOMAIN listings :
        /\ listings[id].content_hash = listed.content_hash
        /\ listings[id].license_type = "Exclusive"
        /\ listings[id].status = "Sold"

NonExclusive == LicenseTypes \ {"Exclusive"}

\* the step is a create_listing call for content hash h with a non-exclusive
\* license type
CreateNonExclusiveStep(h) == CreateStep(h) /\ listed'.license_type \in NonExclusive

\* C20 as stated: create_listing with a non-exclusive license type (OneTime,
\* Recurring, OpenSource) is never rejected because of a duplicate content
\* hash: every such listing succeeds, and creating one does not mark the
\* content as owned.
C20_NonExclusiveNeverRejected ==
    [][\A h \in ContentHashes :
        CreateNonExclusiveStep(h) =>
            /\ listed'.status = "Ok"
            /\ content_owner' = content_owner]_vars

\* C20 as amended: create_listing with a non-exclusive license type is never
\* rejected because of a duplicate content hash among non-exclusive listings:
\* while no exclusive listing for the content hash is in place, any number of
\* such listings with the same hash succeed, and creating one does not mark
\* the content as owned.
C20_NonExclusiveDuplicates ==
    [][\A h \in ContentHashes :
        (CreateNonExclusiveStep(h) /\ ~ExclusiveListed(h)) =>
            /\ listed'.status = "Ok"
            /\ Has(listings', listed'.listing_id)
            /\ listings'[listed'.listing_id] =
                   Listing(listed'.listing_id, h, listed'.license_type, "Active")
            /\ content_owner' = content_owner
            /\ ~Has(content_owner', h)]_vars

\* as many non-exclusive listings as a run creates share one content hash,
\* two of them with the same license type, and the content is not owned
C20_Witness ==
    \E h \in ContentHashes :
        /\ listing_counter = MaxListings
        /\ DOMAIN listings = ListingIds
        /\ \A id \in ListingIds :
            listings[id].content_hash = h /\ listings[id].license_type \in NonExclusive
        /\ \E i, j \in ListingIds : i # j /\ listings[i].license_type = listings[j].license_type
        /\ ~Has(content_owner, h)
        /\ listed.status = "Ok"

-----------------------------------------------------------------------------
(* Claims C21..C30 *)

(* Policy Store and Attester Registry: the collaborators' own operations.  *)
(* They are called by the administrator, outside submit_attestation.       *)

\* the administrator sets DataKey::MinAttesters
SetMinAttesters(n) ==
    /\ min_cfg # <<n>>
    /\ min_cfg' = <<n>>
    /\ UNCHANGED <<authorized, now, period, attestations, index, count, consensus,
                   expiry, call, result, returned>>
    /\ UNCHANGED <<overflow_checks, submitted>>
    /\ UNCHANGED <<segment_vars, market_vars>>

\* the oracle while the administrator changes the quorum between submissions
InitAdmin == Init /\ authorized = {"A", "B"}
SetMin == \E n \in (0..MaxConfiguredMin) \cup {DefaultMinAttesters} : SetMinAttesters(n)
NextAdmin == Submit \/ Tick \/ SetMin

SpecAdmin == InitAdmin /\ [][NextAdmin]_vars

(* C21  A successful submit that leaves count(campaign) < min_attesters    *)
(* stores the attestation and leaves the consensus record alone: a record  *)
(* written earlier keeps every field, last_updated included, and an absent *)
(* record stays absent.                                                    *)

C21_FrameBelowQuorum ==
    [][\A c \in Campaigns, a \in Attesters : \A m \in Reports(a) :
        (/\ SubmitStep(c, a, m)
         /\ min_cfg' = min_cfg
         /\ result'.status = "Ok"
         /\ CountOf(count', c) < MinAttesters) =>
            /\ consensus' = consensus
            /\ Has(attestations', <<c, a>>)
            /\ attestations'[<<c, a>>] = PerformanceAttestation(c, a, m, now)]_vars

\* a submit below a raised quorum has been stored beside an older record
C21_Witness ==
    \E c \in Campaigns :
        /\ result.status = "Ok"
        /\ result.campaign = c
        /\ CountOf(count, c) < MinAttesters
        /\ Has(consensus, c)
        /\ consensus[c].last_updated < now
        /\ Has(attestations, <<c, call[2]>>)
        /\ attestations[<<c, call[2]>>].submitted_at = now

(* C22  The attester index is append-only: a position that maps to an      *)
(* attester maps to the same attester in every later state, the positions  *)
(* an attester holds are fixed by their first submission, and              *)
(* count(campaign) never decreases.                                        *)

\* the index positions of campaign c that hold the attester a
PositionsOf(idx, c, a) == {k \in DOMAIN idx : k[1] = c /\ idx[k] = a}

C22_IndexAppendOnly ==
    [][\A c \in Campaigns :
        /\ \A k \in DOMAIN index : Has(index', k) /\ index'[k] = index[k]
        /\ \A a \in Attesters :
             PositionsOf(index, c, a) # {} =>
                PositionsOf(index', c, a) = PositionsOf(index, c, a)
        /\ CountOf(count', c) >= CountOf(count, c)]_vars

(* C23  Bounded outlier influence: when the n-th distinct attester submits *)
(* Y for a field while the other n-1 stored attestations have the exact    *)
(* average T, the new consensus average differs from T by at most          *)
(* |Y - T| / n, up to the truncation of the division (less than 1).        *)

\* k times the wide number w, for a small k
RECURSIVE TimesCarry(_, _, _)
TimesCarry(w, k, i) ==
    IF i > Len(w) THEN 0 ELSE (w[i] * k + TimesCarry(w, k, i + 1)) \div LimbBase

Times(w, k) == [i \in 1..Len(w) |-> (w[i] * k + TimesCarry(w, k, i + 1)) % LimbBase]


\* |avg - T| < |Y - T| / n + 1 for T = s / (n - 1), with both sides
\* multiplied by n * (n - 1) to stay in whole numbers
InfluenceBounded(avg, y, s, n) ==
    LET sum == Limbs(s)
        moved == Limbs(AbsDiff(Limbs(Times(avg, n * (n - 1))), Limbs(Times(sum, n))))
        apart == Limbs(AbsDiff(Limbs(Times(y, n - 1)), sum))
        slack == Limbs(Widen(ToU64(n * (n - 1))))
    IN  Less(moved, Limbs(WrappingAdd(apart, slack)))

C23_BoundedInfluence ==
    [][\A c \in Campaigns : \A x \in Attesters :
        (/\ SubmitOkStep(c)
         /\ result'.is_new
         /\ x \notin Stored(c)
         /\ StoredIn(attestations', c) = Stored(c) \cup {x}
         /\ Cardinality(Stored(c)) >= 1
         /\ CountOf(count', c) >= MinAttesters) =>
            /\ Has(consensus', c)
            /\ \A f \in Fields :
                 InfluenceBounded(AvgOf(consensus'[c], f),
                                  FieldOf(attestations'[<<c, x>>], f),
                                  ExactSum(attestations, c, f),
                                  Cardinality(Stored(c)) + 1)]_vars

\* the third attester has submitted values far from the average of the two
\* stored before, and the record moved by exactly a third of the distance
C23_Witness ==
    \E c \in Campaigns :
        /\ StoreIs(attestations, c, ScenarioABC)
        /\ PositionsOf(index, c, "C") = {<<c, 2>>}
        /\ result = Outcome("Ok", c, 3, TRUE)
        /\ call[2] = "C"
        /\ Has(consensus, c)
        /\ consensus[c].avg_impressions = ToU64(1500 + (9000 - 1500) \div 3)
        /\ consensus[c].avg_fraud_rate = 1500 + (9000 - 1500) \div 3

(* C25  (as stated) The consensus record is never stale, even when the     *)
(* administrator changes min_attesters between submissions: whenever a     *)
(* record exists, its total_attesters equals count(campaign) and its four  *)
(* averages are the truncated means of the attestations now stored.        *)

C25_NeverStale ==
    \A c \in Campaigns :
        Has(consensus, c) =>
            IsMeanOfStore(consensus[c], attestations, c, CountOf(count, c))

(* C25  (amended) The record is current whenever it is written: every      *)
(* successful submit with count(campaign) >= the min_attesters in force    *)
(* leaves total_attesters = count and the truncated means of the stored    *)
(* attestations.  A change of min_attesters does not touch the record, so  *)
(* after a raise the record lags the stores until a submit finds the count *)
(* at the quorum again; its total_attesters never exceeds the count.       *)

C25_CurrentWhenWritten ==
    /\ [](\A c \in Campaigns :
            Has(consensus, c) => consensus[c].total_attesters <= CountOf(count, c))
    /\ [][\A c \in Campaigns :
            /\ (SubmitOkStep(c) /\ min_cfg' = min_cfg
                    /\ CountOf(count', c) >= MinAttesters) =>
                    /\ Has(consensus', c)
                    /\ IsMeanOfStore(consensus'[c], attestations', c, CountOf(count', c))
            /\ min_cfg' # min_cfg => consensus' = consensus]_vars

\* after a raise of min_attesters an attester has replaced its values and
\* the record still holds the averages of the values replaced
C25_Witness ==
    \E c \in Campaigns :
        /\ Has(consensus, c)
        /\ result = Outcome("Ok", c, CountOf(count, c), FALSE)
        /\ CountOf(count, c) < MinAttesters
        /\ consensus[c].total_attesters = CountOf(count, c)
        /\ \E f \in Fields :
             AvgOf(consensus[c], f) # DivU64(ExactSum(attestations, c, f), CountOf(count, c))

(* C26  Store/index consistency: in every reachable state and for every    *)
(* campaign, the attesters holding a stored attestation are exactly the    *)
(* attesters at the index positions 0..count-1, so the builder finds the   *)
(* attestation of every indexed attester and its traversal leaves no       *)
(* stored attestation out.                                                 *)

\* the attesters found by walking the index of campaign c up to its count
Indexed(c) ==
    {index[<<c, i>>] : i \in {j \in 0..(CountOf(count, c) - 1) : Has(index, <<c, j>>)}}

C26_StoreIndexConsistent ==
    /\ result.status \notin {"attester index not found", "attestation not found"}
    /\ \A c \in Campaigns :
        /\ \A i \in 0..(CountOf(count, c) - 1) :
             Has(index, <<c, i>>) /\ Has(attestations, <<c, index[<<c, i>>]>>)
        /\ Indexed(c) = Stored(c)

\* the third attester has just been stored and the traversal covered all
C26_Witness ==
    \E c \in Campaigns :
        /\ result = Outcome("Ok", c, 3, TRUE)
        /\ Stored(c) = Attesters
        /\ Indexed(c) = Attesters
        /\ Has(consensus, c)
        /\ consensus[c].total_attesters = 3

(* C27  The consensus computation never divides by zero and never writes   *)
(* total_attesters = 0: whenever the averages are computed the divisor is  *)
(* at least 1, for every configured min_attesters, 0 included.             *)

C27_NoDivisionByZero ==
    /\ [](/\ result.status # "attempt to divide by zero"
          /\ \A c \in Campaigns : Has(consensus, c) => consensus[c].total_attesters >= 1)
    /\ [][\A c \in Campaigns :
            (SubmitOkStep(c) /\ min_cfg' = min_cfg /\ CountOf(count', c) >= MinAttesters) =>
                /\ CountOf(count', c) >= 1
                /\ Has(consensus', c)
                /\ consensus'[c].total_attesters = CountOf(count', c)]_vars

\* with min_attesters = 0 the first submit has computed over one attester
C27_Witness ==
    \E c \in Campaigns :
        /\ min_cfg = <<0>>
        /\ result = Outcome("Ok", c, 1, TRUE)
        /\ Has(consensus, c)
        /\ consensus[c].total_attesters = 1
        /\ consensus[c].avg_quality_score = attestations[<<c, call[2]>>].quality_score

(* C28  The narrowing of avg_fraud_rate and avg_quality_score from the     *)
(* 64-bit quotient to 32 bits is lossless: the quotient sum /              *)
(* total_attesters of 32-bit values fits 32 bits, so the stored average    *)
(* equals the 64-bit quotient.                                             *)

NarrowedFields == {"fraud_rate", "quality_score"}

\* the stored 32-bit average of field f
NarrowedAvg(rec, f) == IF f = "fraud_rate" THEN rec.avg_fraud_rate ELSE rec.avg_quality_score

C28_LosslessNarrowing ==
    [][\A c \in Campaigns :
        (SubmitOkStep(c) /\ min_cfg' = min_cfg /\ CountOf(count', c) >= MinAttesters) =>
            \A f \in NarrowedFields :
                \A sum \in {Limbs(ExactSum(attestations', c, f))} :
                    \A quotient \in {Limbs(DivU64(sum, CountOf(count', c)))} :
                        /\ \A i \in 1..(NumLimbs - 1) : quotient[i] = 0
                        /\ NarrowedAvg(consensus'[c], f) =
                             quotient[NumLimbs] * LimbBase + quotient[NumLimbs + 1]]_vars

\* averages above 8 bits and with a truncated half have been stored
C28_Witness ==
    \E c \in Campaigns :
        /\ result.status = "Ok"
        /\ Has(consensus, c)
        /\ consensus[c].total_attesters = 2
        /\ attestations[<<c, "A">>].fraud_rate = 2000
        /\ attestations[<<c, "B">>].fraud_rate = 7
        /\ consensus[c].avg_fraud_rate = 1003
        /\ consensus[c].avg_quality_score = 61

(* C29  (as stated) In every consensus record each of the four averages    *)
(* lies between the smallest and the largest value of its field over the   *)
(* attestations currently stored for the campaign, both included.          *)

\* the wide number avg lies between two values of field f stored for c in att
WithinStored(avg, att, c, f) ==
    /\ \E a \in StoredIn(att, c) : LessEq(FieldOf(att[<<c, a>>], f), avg)
    /\ \E a \in StoredIn(att, c) : LessEq(avg, FieldOf(att[<<c, a>>], f))

C29_AverageWithinRange ==
    \A c \in Campaigns :
        Has(consensus, c) =>
            \A f \in Fields :
                \A avg \in {Limbs(AvgOf(consensus[c], f))} :
                    WithinStored(avg, attestations, c, f)

(* C29  (amended) Each of the four averages of a consensus record lies,    *)
(* when the record is written, between the smallest and the largest value  *)
(* of its field over the attestations then stored for the campaign, both   *)
(* included; a submit that does not write the record leaves its averages   *)
(* as they were.                                                           *)

C29_WithinRangeWhenWritten ==
    [][\A c \in Campaigns :
        (SubmitOkStep(c) /\ min_cfg' = min_cfg) =>
            IF CountOf(count', c) >= MinAttesters
            THEN /\ Has(consensus', c)
                 /\ \A f \in Fields :
                      \A avg \in {Limbs(AvgOf(consensus'[c], f))} :
                          WithinStored(avg, attestations', c, f)
            ELSE /\ Has(consensus', c) <=> Has(consensus, c)
                 /\ Has(consensus, c) => AvgTuple(consensus'[c]) = AvgTuple(consensus[c])]_vars

\* a record was just written over two different values per field, with
\* averages strictly inside
C29_Witness ==
    \E c \in Campaigns :
        /\ result.status = "Ok"
        /\ result.campaign = c
        /\ Has(consensus, c)
        /\ consensus[c].last_updated = now
        /\ consensus[c].total_attesters = 2
        /\ CountOf(count, c) >= MinAttesters
        /\ \A f \in Fields :
             /\ \E a \in Stored(c) :
                  Less(FieldOf(attestations[<<c, a>>], f), AvgOf(consensus[c], f))
             /\ \E a \in Stored(c) :
                  Less(AvgOf(consensus[c], f), FieldOf(attestations[<<c, a>>], f))

\* Attester Registry: the administrator authorizes an attester
AuthorizeAttester(a) ==
    /\ a \notin authorized
    /\ authorized' = authorized \cup {a}
    /\ call' = <<"authorize_attester", a>>
    /\ UNCHANGED <<min_cfg, now, period, attestations, index, count, consensus,
                   expiry, result, returned, overflow_checks,
                   submitted>>
    /\ UNCHANGED <<segment_vars, market_vars>>

\* Attester Registry: the administrator revokes an attester; nothing stored
\* by the attester is touched
RevokeAttester(a) ==
    /\ a \in authorized
    /\ authorized' = authorized \ {a}
    /\ call' = <<"revoke_attester", a>>
    /\ UNCHANGED <<min_cfg, now, period, attestations, index, count, consensus,
                   expiry, result, returned, overflow_checks,
                   submitted>>
    /\ UNCHANGED <<segment_vars, market_vars>>

\* the oracle while the registry changes between submissions
InitRegistry == Init /\ min_cfg = <<2>>
Authorize == \E a \in Attesters : AuthorizeAttester(a)
Revoke == \E a \in Attesters : RevokeAttester(a)
NextRegistry == Submit \/ Authorize \/ Revoke

SpecRegistry == InitRegistry /\ [][NextRegistry]_vars

(* C30  Every attestation that contributes to a consensus computation was  *)
(* written by a submit whose attester was authorized at the time of that   *)
(* submit; authorization is checked once per submit and not again when the *)
(* attestation is read, so the attestation of an attester revoked          *)
(* afterwards still contributes its share of 1/n.                          *)

\* the attestation of attester a for campaign c is written by this step
WritesAttestation(c, a) ==
    /\ Has(attestations', <<c, a>>)
    /\ ~Has(attestations, <<c, a>>) \/ attestations'[<<c, a>>] # attestations[<<c, a>>]

C30_AuthorizedOncePerSubmit ==
    [][\A c \in Campaigns :
        /\ \A a \in Attesters :
             WritesAttestation(c, a) =>
                /\ a \in authorized
                /\ \E m \in Reports(a) : SubmitStep(c, a, m)
        /\ \A a \in Attesters : \A m \in Reports(a) :
             (SubmitStep(c, a, m) /\ result'.status = "Ok"
                    /\ CountOf(count', c) >= MinAttesters) =>
                /\ Has(consensus', c)
                /\ IsMeanOfStore(consensus'[c], attestations', c,
                                 Cardinality(StoredIn(attestations', c)))]_vars

\* a record has just been computed over the attestations of three attesters,
\* two of whom had been revoked before the call
C30_Witness ==
    \E c \in Campaigns :
        /\ Len(call) = 3
        /\ result = Outcome("Ok", c, 3, FALSE)
        /\ authorized = {call[2]}
        /\ Stored(c) = Attesters
        /\ Has(consensus, c)
        /\ IsMeanOfStore(consensus[c], attestations, c, 3)

====
